---- MODULE Spec2Model ----
(***************************************************************************)
(* Model of the sequence protocol dispatch layer,                          *)
(* vm/src/protocol/sequence.rs (struct PySequence and its methods).        *)
(*                                                                         *)
(* A method table (PySequenceMethods) is modelled as the set of the slots  *)
(* that are Some; Option<T> is modelled as a set with at most one element. *)
(* The collaborators outside the file (native slot functions, the generic  *)
(* operators, the iteration protocol, the equality test) are oracles whose *)
(* outcome is an input of the call.                                        *)
(***************************************************************************)
EXTENDS Integers, Sequences, FiniteSets, TLC

VARIABLES
    mro,          \* the method resolution order of self.obj.class(), most derived first
    as_sequence,  \* per type: Option of the table its slots.as_sequence function produces
    as_mapping,   \* per type: Option of the table its slots.as_mapping function produces
    view,         \* the PySequence under test: its OnceCell and what initialising it did
    op,           \* the last operation called on the view
    args,         \* the inputs of that call, oracle outcomes included
    res,          \* the PyResult that call returned
    calls,        \* the collaborators that call invoked, in order
    consumed      \* how many items that call pulled from the iterator

vars == <<mro, as_sequence, as_mapping, view, op, args, res, calls, consumed>>

world == <<mro, as_sequence, as_mapping>>

----------------------------------------------------------------------------
(* Bounds and constants *)

\* isize::MAX, scaled down
ISIZE_MAX == 3

\* longest iterator an operation is given
MaxLen == 5

\* the ghost counters of a view saturate here
MaxWalks == 3

----------------------------------------------------------------------------
(* Method tables *)

Slots == {"length", "concat", "repeat", "item", "ass_item", "contains",
          "inplace_concat", "inplace_repeat"}

NOT_IMPLEMENTED == {}

None == {}

Some(x) == {x}

Unwrap(o) == CHOOSE x \in o : TRUE

\* the tables the types of the model may register
SeqTables == { NOT_IMPLEMENTED,
               {"item"},
               {"concat"},
               {"contains"},
               {"item", "inplace_concat"},
               {"item", "concat", "repeat"},
               {"length", "item", "ass_item", "inplace_repeat"},
               Slots }

MapSlots == {"subscript", "ass_subscript"}

MapTables == SUBSET MapSlots

----------------------------------------------------------------------------
(* Types *)

dict_type == "dict"

tuple_type == "tuple"

list_type == "list"

Types == {"object", "A", "dict", "D", "tuple", "list"}

MROs == { <<"object">>, <<"A", "object">>, <<"dict", "object">>,
          <<"D", "dict", "object">>, <<"tuple", "object">>, <<"list", "object">> }

class(m) == Head(m)

RECURSIVE mro_find_map(_, _)
\* the first type of m, most derived first, whose slot is Some: Option of
\* [owner: the type, tbl: the table its function produces]
mro_find_map(m, slot) ==
    IF m = <<>> THEN None
    ELSE IF slot[Head(m)] # None
         THEN Some([owner |-> Head(m), tbl |-> Unwrap(slot[Head(m)])])
         ELSE mro_find_map(Tail(m), slot)

----------------------------------------------------------------------------
(* Results *)

Ok(tag) == [kind |-> "ok", tag |-> tag, msg |-> "", cls |-> "", num |-> 0, elems |-> <<>>]

OkNum(n) == [kind |-> "ok", tag |-> "usize", msg |-> "", cls |-> "", num |-> n, elems |-> <<>>]

OkElems(tag, es) ==
    [kind |-> "ok", tag |-> tag, msg |-> "", cls |-> "", num |-> 0, elems |-> es]

Err(tag) == [kind |-> "err", tag |-> tag, msg |-> "", cls |-> "", num |-> 0, elems |-> <<>>]

new_type_error(c, msg) ==
    [kind |-> "err", tag |-> "TypeError", msg |-> msg, cls |-> c, num |-> 0, elems |-> <<>>]

new_value_error(msg) ==
    [kind |-> "err", tag |-> "ValueError", msg |-> msg, cls |-> "", num |-> 0, elems |-> <<>>]

new_overflow_error(msg) ==
    [kind |-> "err", tag |-> "OverflowError", msg |-> msg, cls |-> "", num |-> 0, elems |-> <<>>]

\* what a native slot function may return
SlotResults == {Ok("slot_value"), Err("slot_error")}

\* what a native contains slot may return
BoolResults == {Ok("true"), Ok("false"), Err("slot_error")}

\* what a generic operator may return
OpResults == {Ok("op_value"), Ok("NotImplemented"), Err("op_error")}

\* PyArithmeticValue::from_object: Implemented unless the object is NotImplemented
Implemented(r) == r.tag # "NotImplemented"

NoArgs == [other |-> <<>>, slotRes |-> Ok("unit"), opRes |-> Ok("unit"),
           items |-> <<>>, target |-> "", iterOk |-> TRUE,
           start |-> 0, stop |-> 0, slice |-> None]

----------------------------------------------------------------------------
(* The view: construction and resolution *)

\* PySequence::from: an empty OnceCell
from_obj == [init |-> FALSE, tbl |-> NOT_IMPLEMENTED, walks |-> 0, fncalls |-> 0,
             selected |-> "none", supplied |-> FALSE]

\* PySequence::with_methods: a OnceCell holding the caller's table
with_methods(t) ==
    [init |-> TRUE, tbl |-> t, walks |-> 0, fncalls |-> 0,
     selected |-> "none", supplied |-> TRUE]

Bump(n) == IF n < MaxWalks THEN n + 1 ELSE n

\* the closure given to get_or_init: the ancestry walk, the dictionary type excluded
resolve(m) ==
    LET f == IF class(m) # dict_type THEN mro_find_map(m, as_sequence) ELSE None
    IN  IF f # None
        THEN [tbl |-> Unwrap(f).tbl, selected |-> Unwrap(f).owner, called |-> TRUE]
        ELSE [tbl |-> NOT_IMPLEMENTED, selected |-> "none", called |-> FALSE]

\* methods_cow without the memo: every access runs the closure again
methods_cow_uncached(v) ==
    LET r == resolve(mro)
    IN  [v EXCEPT !.init = TRUE, !.tbl = r.tbl, !.walks = Bump(v.walks),
                  !.fncalls = IF r.called THEN Bump(v.fncalls) ELSE v.fncalls,
                  !.selected = r.selected]

\* methods_cow: OnceCell::get_or_init, the view after the access
methods_cow(v) ==
    IF v.init THEN v
    ELSE LET r == resolve(mro)
         IN  [v EXCEPT !.init = TRUE, !.tbl = r.tbl, !.walks = Bump(v.walks),
                       !.fncalls = IF r.called THEN Bump(v.fncalls) ELSE v.fncalls,
                       !.selected = r.selected]

\* methods: the view after the access; its tbl is the table returned
methods(v) == methods_cow(v)

\* has_protocol: the view after the access and the answer
has_protocol(v) ==
    LET v1 == methods(v) IN [view |-> v1, yes |-> "item" \in v1.tbl]

\* PySequence::from(other).has_protocol(vm), other of ancestry m
other_has_protocol(m) == "item" \in resolve(m).tbl

\* try_protocol
try_protocol(v) ==
    LET h == has_protocol(v)
    IN  [view |-> h.view, calls |-> <<>>,
         res |-> IF h.yes THEN Ok("unit")
                 ELSE new_type_error(class(mro), "is not a sequence")]

----------------------------------------------------------------------------
(* Operations that dispatch on one slot *)

length(v, slotRes) ==
    LET v1 == methods(v)
    IN  IF "length" \in v1.tbl
        THEN [view |-> v1, res |-> slotRes, calls |-> <<"slot.length">>]
        ELSE [view |-> v1, calls |-> <<>>,
              res |-> new_type_error(class(mro), "is not a sequence or has no len()")]

get_item(v, slotRes) ==
    LET v1 == methods(v)
    IN  IF "item" \in v1.tbl
        THEN [view |-> v1, res |-> slotRes, calls |-> <<"slot.item">>]
        ELSE [view |-> v1, calls |-> <<>>,
              res |-> new_type_error(class(mro),
                          "is not a sequence or does not support indexing")]

\* _ass_item with the two wordings of its error exchanged
_ass_item_swapped(v, value, slotRes) ==
    LET v1 == methods(v)
    IN  IF "ass_item" \in v1.tbl
        THEN [view |-> v1, res |-> slotRes, calls |-> <<"slot.ass_item">>]
        ELSE [view |-> v1, calls |-> <<>>,
              res |-> new_type_error(class(mro),
                          IF value = None
                          THEN "is not a sequence or doesn't support item assignment"
                          ELSE "is not a sequence or doesn't support item deletion")]

\* value is Option: Some for assignment, None for deletion
_ass_item(v, value, slotRes) ==
    LET v1 == methods(v)
    IN  IF "ass_item" \in v1.tbl
        THEN [view |-> v1, res |-> slotRes, calls |-> <<"slot.ass_item">>]
        ELSE [view |-> v1, calls |-> <<>>,
              res |-> new_type_error(class(mro),
                          IF value # None
                          THEN "is not a sequence or doesn't support item assignment"
                          ELSE "is not a sequence or doesn't support item deletion")]

set_item(v, slotRes) == _ass_item(v, Some("value"), slotRes)

del_item(v, slotRes) == _ass_item(v, None, slotRes)

----------------------------------------------------------------------------
(* Operations with an operator fallback *)

\* the tail shared by the four: the generic operator, then the type error
operator_fallback(v, eligible, opName, opRes, msg) ==
    IF eligible
    THEN IF opRes.kind = "err"
         THEN [view |-> v, res |-> opRes, calls |-> <<opName>>]
         ELSE IF Implemented(opRes)
              THEN [view |-> v, res |-> opRes, calls |-> <<opName>>]
              ELSE [view |-> v, res |-> new_type_error(class(mro), msg),
                    calls |-> <<opName>>]
    ELSE [view |-> v, res |-> new_type_error(class(mro), msg), calls |-> <<>>]

\* concat asking only the receiver for the protocol before the operator
concat_receiver_only(v, other, slotRes, opRes) ==
    LET v1 == methods(v)
    IN  IF "concat" \in v1.tbl
        THEN [view |-> v1, res |-> slotRes, calls |-> <<"slot.concat">>]
        ELSE LET h == has_protocol(v1)
             IN  operator_fallback(h.view, h.yes, "vm._add", opRes,
                                   "object can't be concatenated")

concat(v, other, slotRes, opRes) ==
    LET v1 == methods(v)
    IN  IF "concat" \in v1.tbl
        THEN [view |-> v1, res |-> slotRes, calls |-> <<"slot.concat">>]
        ELSE LET h == has_protocol(v1)
             IN  operator_fallback(h.view, h.yes /\ other_has_protocol(other),
                                   "vm._add", opRes, "object can't be concatenated")

repeat(v, slotRes, opRes) ==
    LET v1 == methods(v)
    IN  IF "repeat" \in v1.tbl
        THEN [view |-> v1, res |-> slotRes, calls |-> <<"slot.repeat">>]
        ELSE LET h == has_protocol(v1)
             IN  operator_fallback(h.view, h.yes, "vm._mul", opRes,
                                   "object can't be repeated")

\* inplace_concat trying the plain concat slot first
inplace_concat_swapped(v, other, slotRes, opRes) ==
    LET v1 == methods(v)
    IN  IF "concat" \in v1.tbl
        THEN [view |-> v1, res |-> slotRes, calls |-> <<"slot.concat">>]
        ELSE IF "inplace_concat" \in v1.tbl
             THEN [view |-> v1, res |-> slotRes, calls |-> <<"slot.inplace_concat">>]
             ELSE LET h == has_protocol(v1)
                  IN  operator_fallback(h.view, h.yes /\ other_has_protocol(other),
                                        "vm._iadd", opRes, "object can't be concatenated")

inplace_concat(v, other, slotRes, opRes) ==
    LET v1 == methods(v)
    IN  IF "inplace_concat" \in v1.tbl
        THEN [view |-> v1, res |-> slotRes, calls |-> <<"slot.inplace_concat">>]
        ELSE LET v2 == methods(v1)
             IN  IF "concat" \in v2.tbl
                 THEN [view |-> v2, res |-> slotRes, calls |-> <<"slot.concat">>]
                 ELSE LET h == has_protocol(v2)
                      IN  operator_fallback(h.view, h.yes /\ other_has_protocol(other),
                                            "vm._iadd", opRes,
                                            "object can't be concatenated")

inplace_repeat(v, slotRes, opRes) ==
    LET v1 == methods(v)
    IN  IF "inplace_repeat" \in v1.tbl
        THEN [view |-> v1, res |-> slotRes, calls |-> <<"slot.inplace_repeat">>]
        ELSE LET v2 == methods(v1)
             IN  IF "repeat" \in v2.tbl
                 THEN [view |-> v2, res |-> slotRes, calls |-> <<"slot.repeat">>]
                 ELSE LET h == has_protocol(v2)
                      IN  operator_fallback(h.view, h.yes, "vm._imul", opRes,
                                            "object can't be repeated")

----------------------------------------------------------------------------
(* Slicing through the mapping protocol *)

\* PySlice { start: Some(start), stop, step: None }
PySlice(start, stop) == [start |-> Some(start), stop |-> stop, step |-> None]

\* get_slice falling back on the item slot of the sequence table
get_slice_via_item(v, start, stop, slotRes) ==
    LET f == mro_find_map(mro, as_mapping)
        v1 == methods(v)
    IN  IF f # None /\ "subscript" \in Unwrap(f).tbl
        THEN [view |-> v, res |-> slotRes, calls |-> <<"mp.subscript">>,
              slice |-> Some(PySlice(start, stop))]
        ELSE IF "item" \in v1.tbl
             THEN [view |-> v1, res |-> slotRes, calls |-> <<"slot.item">>, slice |-> None]
             ELSE [view |-> v1, calls |-> <<>>, slice |-> None,
                   res |-> new_type_error(class(mro), "object is unsliceable")]

get_slice(v, start, stop, slotRes) ==
    LET f == mro_find_map(mro, as_mapping)
    IN  IF f # None /\ "subscript" \in Unwrap(f).tbl
        THEN [view |-> v, res |-> slotRes, calls |-> <<"mp.subscript">>,
              slice |-> Some(PySlice(start, stop))]
        ELSE [view |-> v, calls |-> <<>>, slice |-> None,
              res |-> new_type_error(class(mro), "object is unsliceable")]

\* value is Option: Some for assignment, None for deletion
_ass_slice(v, start, stop, value, slotRes) ==
    LET f == mro_find_map(mro, as_mapping)
    IN  IF f # None /\ "ass_subscript" \in Unwrap(f).tbl
        THEN [view |-> v, res |-> slotRes, calls |-> <<"mp.ass_subscript">>,
              slice |-> Some(PySlice(start, stop))]
        ELSE [view |-> v, calls |-> <<>>, slice |-> None,
              res |-> new_type_error(class(mro),
                          IF value # None
                          THEN "object doesn't support slice assignment"
                          ELSE "object doesn't support slice deletion")]

set_slice(v, start, stop, slotRes) == _ass_slice(v, start, stop, Some("value"), slotRes)

del_slice(v, start, stop, slotRes) == _ass_slice(v, start, stop, None, slotRes)

----------------------------------------------------------------------------
(* Iteration and equality *)

\* what an iterator may yield: the objects "a" and "b", an object "Q" whose
\* comparison raises, and "E", a step of the iterator that raises
Elems == {"a", "b", "Q"}

Yields == Elems \cup {"E"}

Targets == {"a", "b"}

Iterators == UNION { [1..n -> Yields] : n \in 0..MaxLen }

\* vm.bool_eq(elem, target)
bool_eq(elem, target) ==
    IF elem = "Q" THEN Err("eq_error")
    ELSE IF elem = target THEN Ok("true") ELSE Ok("false")

\* two's complement isize and usize of the scaled width
ISIZE_MOD == 2 * (ISIZE_MAX + 1)

wrap_isize(x) == ((x + ISIZE_MAX + 1) % ISIZE_MOD) - (ISIZE_MAX + 1)

wrap_usize(x) == x % ISIZE_MOD

\* index as usize
as_usize(x) == x % ISIZE_MOD

RECURSIVE contains_loop(_, _, _)
\* the for loop of contains, about to pull item i
contains_loop(items, target, i) ==
    IF i > Len(items) THEN [res |-> Ok("false"), consumed |-> Len(items)]
    ELSE IF items[i] = "E" THEN [res |-> Err("iter_error"), consumed |-> i]
    ELSE LET eq == bool_eq(items[i], target)
         IN  IF eq.kind = "err" THEN [res |-> eq, consumed |-> i]
             ELSE IF eq.tag = "true" THEN [res |-> Ok("true"), consumed |-> i]
             ELSE contains_loop(items, target, i + 1)

contains(v, items, target, iterOk, slotRes) ==
    LET v1 == methods(v)
    IN  IF "contains" \in v1.tbl
        THEN [view |-> v1, res |-> slotRes, calls |-> <<"slot.contains">>, consumed |-> 0]
        ELSE IF ~iterOk
             THEN [view |-> v1, res |-> Err("iter_error"), calls |-> <<"get_iter">>,
                   consumed |-> 0]
             ELSE LET r == contains_loop(items, target, 1)
                  IN  [view |-> v1, res |-> r.res, calls |-> <<"get_iter">>,
                       consumed |-> r.consumed]

RECURSIVE count_loop_unguarded(_, _, _, _)
\* the for loop of count without its overflow guard
count_loop_unguarded(items, target, i, n) ==
    IF i > Len(items) THEN [res |-> OkNum(n), consumed |-> Len(items)]
    ELSE IF items[i] = "E" THEN [res |-> Err("iter_error"), consumed |-> i]
    ELSE LET eq == bool_eq(items[i], target)
         IN  IF eq.kind = "err" THEN [res |-> eq, consumed |-> i]
             ELSE IF eq.tag = "true"
                  THEN count_loop_unguarded(items, target, i + 1, wrap_usize(n + 1))
                  ELSE count_loop_unguarded(items, target, i + 1, n)

RECURSIVE count_loop(_, _, _, _)
\* the for loop of count, about to pull item i with n matches so far
count_loop(items, target, i, n) ==
    IF i > Len(items) THEN [res |-> OkNum(n), consumed |-> Len(items)]
    ELSE IF items[i] = "E" THEN [res |-> Err("iter_error"), consumed |-> i]
    ELSE LET eq == bool_eq(items[i], target)
         IN  IF eq.kind = "err" THEN [res |-> eq, consumed |-> i]
             ELSE IF eq.tag = "true"
                  THEN IF n = ISIZE_MAX
                       THEN [res |-> new_overflow_error("index exceeds C integer size"),
                             consumed |-> i]
                       ELSE count_loop(items, target, i + 1, wrap_usize(n + 1))
                  ELSE count_loop(items, target, i + 1, n)

\* count asking the method table for the protocol before it iterates
count_checked(v, items, target, iterOk) ==
    LET h == has_protocol(v)
    IN  IF ~h.yes
        THEN [view |-> h.view, res |-> new_type_error(class(mro), "is not a sequence"),
              calls |-> <<>>, consumed |-> 0]
        ELSE IF ~iterOk
        THEN [view |-> h.view, res |-> Err("iter_error"), calls |-> <<"get_iter">>,
              consumed |-> 0]
        ELSE LET r == count_loop(items, target, 1, 0)
             IN  [view |-> h.view, res |-> r.res, calls |-> <<"get_iter">>,
                  consumed |-> r.consumed]

count(v, items, target, iterOk) ==
    IF ~iterOk
    THEN [view |-> v, res |-> Err("iter_error"), calls |-> <<"get_iter">>, consumed |-> 0]
    ELSE LET r == count_loop(items, target, 1, 0)
         IN  [view |-> v, res |-> r.res, calls |-> <<"get_iter">>, consumed |-> r.consumed]

RECURSIVE index_loop(_, _, _, _)
\* the for loop of index, about to pull item i with the position at index
index_loop(items, target, i, index) ==
    IF i > Len(items)
    THEN [res |-> new_value_error("sequence.index(x): x not in sequence"),
          consumed |-> Len(items)]
    ELSE IF index = ISIZE_MAX
         THEN [res |-> new_overflow_error("index exceeds C integer size"), consumed |-> i]
         ELSE LET next == wrap_isize(index + 1)
              IN  IF items[i] = "E" THEN [res |-> Err("iter_error"), consumed |-> i]
                  ELSE LET eq == bool_eq(items[i], target)
                       IN  IF eq.kind = "err" THEN [res |-> eq, consumed |-> i]
                           ELSE IF eq.tag = "true"
                                THEN [res |-> OkNum(as_usize(next)), consumed |-> i]
                                ELSE index_loop(items, target, i + 1, next)

\* index with the position starting at 0 instead of -1
index_from_zero(v, items, target, iterOk) ==
    IF ~iterOk
    THEN [view |-> v, res |-> Err("iter_error"), calls |-> <<"get_iter">>, consumed |-> 0]
    ELSE LET r == index_loop(items, target, 1, 0)
         IN  [view |-> v, res |-> r.res, calls |-> <<"get_iter">>, consumed |-> r.consumed]

index(v, items, target, iterOk) ==
    IF ~iterOk
    THEN [view |-> v, res |-> Err("iter_error"), calls |-> <<"get_iter">>, consumed |-> 0]
    ELSE LET r == index_loop(items, target, 1, -1)
         IN  [view |-> v, res |-> r.res, calls |-> <<"get_iter">>, consumed |-> r.consumed]

----------------------------------------------------------------------------
(* Coercion *)

RECURSIVE try_collect(_, _)
\* Iterator::try_collect, about to pull item i
try_collect(items, i) ==
    IF i > Len(items) THEN [res |-> OkElems("new", items), consumed |-> Len(items)]
    ELSE IF items[i] = "E" THEN [res |-> Err("iter_error"), consumed |-> i]
    ELSE try_collect(items, i + 1)

\* items is the list's vector when the object is a list, what its iterator yields otherwise
tuple(v, items, iterOk) ==
    IF class(mro) = tuple_type
    THEN [view |-> v, res |-> OkElems("self", items), calls |-> <<>>, consumed |-> 0]
    ELSE IF class(mro) = list_type
    THEN [view |-> v, res |-> OkElems("new", items), calls |-> <<>>, consumed |-> 0]
    ELSE IF ~iterOk
    THEN [view |-> v, res |-> Err("iter_error"), calls |-> <<"get_iter">>, consumed |-> 0]
    ELSE LET r == try_collect(items, 1)
         IN  [view |-> v, res |-> r.res, calls |-> <<"get_iter">>, consumed |-> r.consumed]

\* list.extend(obj) drains the iterator of the object into the new list
list(v, items, iterOk) ==
    IF ~iterOk
    THEN [view |-> v, res |-> Err("iter_error"), calls |-> <<"list.extend">>, consumed |-> 0]
    ELSE LET r == try_collect(items, 1)
         IN  [view |-> v, res |-> r.res, calls |-> <<"list.extend">>,
              consumed |-> r.consumed]

----------------------------------------------------------------------------
(* The calls: one action per public operation of the view *)

SliceBounds == {-1, 0, 1}

\* no call is in progress: the view was just made, or the caller took the last result
Ready == op \in {"from", "with_methods", "return"}

Returned(name, a, r, n) ==
    /\ view' = r.view
    /\ op' = name
    /\ args' = a
    /\ res' = r.res
    /\ calls' = r.calls
    /\ consumed' = n
    /\ UNCHANGED world

\* what the object can be iterated into: a tuple or a list yields its elements
\* and nothing raises; any other object may fail to give an iterator at all
Iterations ==
    IF class(mro) \in {tuple_type, list_type}
    THEN { [items |-> it, iterOk |-> TRUE] : it \in UNION { [1..n -> Elems] : n \in 0..MaxLen } }
    ELSE { [items |-> it, iterOk |-> TRUE] : it \in Iterators }
         \cup { [items |-> <<>>, iterOk |-> FALSE] }

Call_from ==
    /\ Ready
    /\ Returned("from", NoArgs, [view |-> from_obj, res |-> Ok("unit"), calls |-> <<>>], 0)

\* the tables a caller supplies to with_methods
SuppliedTables == { NOT_IMPLEMENTED, {"item"}, {"concat", "contains"} }

Call_with_methods ==
    /\ Ready
    /\ \E t \in SuppliedTables :
           Returned("with_methods", NoArgs,
                    [view |-> with_methods(t), res |-> Ok("unit"), calls |-> <<>>], 0)

\* the caller takes the result of the call; the view lives on
Return ==
    /\ ~Ready
    /\ op' = "return"
    /\ args' = NoArgs
    /\ res' = Ok("unit")
    /\ calls' = <<>>
    /\ consumed' = 0
    /\ UNCHANGED <<view, world>>

Call_methods ==
    /\ Ready
    /\ Returned("methods", NoArgs,
                [view |-> methods(view), res |-> Ok("table"), calls |-> <<>>], 0)

Call_has_protocol ==
    /\ Ready
    /\ LET h == has_protocol(view)
       IN  Returned("has_protocol", NoArgs,
                    [view |-> h.view, res |-> IF h.yes THEN Ok("true") ELSE Ok("false"),
                     calls |-> <<>>], 0)

Call_try_protocol ==
    /\ Ready
    /\ Returned("try_protocol", NoArgs, try_protocol(view), 0)

Call_length ==
    /\ Ready
    /\ \E sr \in SlotResults :
           Returned("length", [NoArgs EXCEPT !.slotRes = sr], length(view, sr), 0)

Call_get_item ==
    /\ Ready
    /\ \E sr \in SlotResults :
           Returned("get_item", [NoArgs EXCEPT !.slotRes = sr], get_item(view, sr), 0)

Call_set_item ==
    /\ Ready
    /\ \E sr \in SlotResults :
           Returned("set_item", [NoArgs EXCEPT !.slotRes = sr], set_item(view, sr), 0)

Call_del_item ==
    /\ Ready
    /\ \E sr \in SlotResults :
           Returned("del_item", [NoArgs EXCEPT !.slotRes = sr], del_item(view, sr), 0)

Call_concat ==
    /\ Ready
    /\ \E other \in MROs, sr \in SlotResults, opr \in OpResults :
           Returned("concat", [NoArgs EXCEPT !.other = other, !.slotRes = sr, !.opRes = opr],
                    concat(view, other, sr, opr), 0)

Call_repeat ==
    /\ Ready
    /\ \E sr \in SlotResults, opr \in OpResults :
           Returned("repeat", [NoArgs EXCEPT !.slotRes = sr, !.opRes = opr],
                    repeat(view, sr, opr), 0)

Call_inplace_concat ==
    /\ Ready
    /\ \E other \in MROs, sr \in SlotResults, opr \in OpResults :
           Returned("inplace_concat",
                    [NoArgs EXCEPT !.other = other, !.slotRes = sr, !.opRes = opr],
                    inplace_concat(view, other, sr, opr), 0)

Call_inplace_repeat ==
    /\ Ready
    /\ \E sr \in SlotResults, opr \in OpResults :
           Returned("inplace_repeat", [NoArgs EXCEPT !.slotRes = sr, !.opRes = opr],
                    inplace_repeat(view, sr, opr), 0)

Call_get_slice ==
    /\ Ready
    /\ \E start \in SliceBounds, stop \in SliceBounds, sr \in SlotResults :
           LET r == get_slice(view, start, stop, sr)
           IN  Returned("get_slice",
                        [NoArgs EXCEPT !.slotRes = sr, !.start = start, !.stop = stop,
                                       !.slice = r.slice], r, 0)

Call_set_slice ==
    /\ Ready
    /\ \E start \in SliceBounds, stop \in SliceBounds, sr \in SlotResults :
           LET r == set_slice(view, start, stop, sr)
           IN  Returned("set_slice",
                        [NoArgs EXCEPT !.slotRes = sr, !.start = start, !.stop = stop,
                                       !.slice = r.slice], r, 0)

Call_del_slice ==
    /\ Ready
    /\ \E start \in SliceBounds, stop \in SliceBounds, sr \in SlotResults :
           LET r == del_slice(view, start, stop, sr)
           IN  Returned("del_slice",
                        [NoArgs EXCEPT !.slotRes = sr, !.start = start, !.stop = stop,
                                       !.slice = r.slice], r, 0)

Call_contains ==
    /\ Ready
    /\ \E it \in Iterations, target \in Targets, sr \in BoolResults :
           LET r == contains(view, it.items, target, it.iterOk, sr)
           IN  Returned("contains",
                        [NoArgs EXCEPT !.items = it.items, !.iterOk = it.iterOk,
                                       !.target = target, !.slotRes = sr], r, r.consumed)

Call_count ==
    /\ Ready
    /\ \E it \in Iterations, target \in Targets :
           LET r == count(view, it.items, target, it.iterOk)
           IN  Returned("count",
                        [NoArgs EXCEPT !.items = it.items, !.iterOk = it.iterOk,
                                       !.target = target], r, r.consumed)

Call_index ==
    /\ Ready
    /\ \E it \in Iterations, target \in Targets :
           LET r == index(view, it.items, target, it.iterOk)
           IN  Returned("index",
                        [NoArgs EXCEPT !.items = it.items, !.iterOk = it.iterOk,
                                       !.target = target], r, r.consumed)

Call_tuple ==
    /\ Ready
    /\ \E it \in Iterations :
           LET r == tuple(view, it.items, it.iterOk)
           IN  Returned("tuple", [NoArgs EXCEPT !.items = it.items, !.iterOk = it.iterOk],
                        r, r.consumed)

Call_list ==
    /\ Ready
    /\ \E it \in Iterations :
           LET r == list(view, it.items, it.iterOk)
           IN  Returned("list", [NoArgs EXCEPT !.items = it.items, !.iterOk = it.iterOk],
                        r, r.consumed)

----------------------------------------------------------------------------
(* Specifications *)

TupleTable == {"length", "concat", "repeat", "item", "contains"}

ListTable == Slots

\* the slot registries in which type A, dict and D register one of the given
\* options and object registers nothing
Registries(a, d, dd, t, l) ==
    [object : {None}, A : a, dict : d, D : dd, tuple : t, list : l]

Option(S) == {None} \cup { Some(x) : x \in S }

\* a view freshly made by PySequence::from
Fresh ==
    /\ view = from_obj
    /\ op = "from"
    /\ args = NoArgs
    /\ res = Ok("unit")
    /\ calls = <<>>
    /\ consumed = 0

\* Dispatch on the method table: every ancestry, the sequence tables varied
Init ==
    /\ mro \in MROs
    /\ as_sequence \in Registries(Option(SeqTables),
                                  {None, Some({"contains"}), Some(Slots)},
                                  {None, Some({"item"})},
                                  {Some(TupleTable)}, {Some(ListTable)})
    /\ as_mapping = [t \in Types |-> None]
    /\ Fresh

Next ==
    \/ Call_from
    \/ Return
    \/ Call_with_methods
    \/ Call_methods
    \/ Call_has_protocol
    \/ Call_try_protocol
    \/ Call_length
    \/ Call_get_item
    \/ Call_set_item
    \/ Call_del_item
    \/ Call_concat
    \/ Call_repeat
    \/ Call_inplace_concat
    \/ Call_inplace_repeat

Spec == Init /\ [][Next]_vars

\* Slicing: every ancestry, the mapping tables varied
InitSlice ==
    /\ mro \in MROs
    /\ as_sequence \in Registries({None, Some({"item"}), Some(Slots)},
                                  {None, Some({"contains"})}, {None},
                                  {Some(TupleTable)}, {Some(ListTable)})
    /\ as_mapping \in Registries(Option(MapTables), {None, Some(MapSlots)},
                                 {None, Some({}), Some({"subscript"})},
                                 {Some({"subscript"})}, {Some(MapSlots)})
    /\ Fresh

NextSlice ==
    \/ Call_from
    \/ Return
    \/ Call_with_methods
    \/ Call_get_item
    \/ Call_set_item
    \/ Call_del_item
    \/ Call_get_slice
    \/ Call_set_slice
    \/ Call_del_slice

SpecSlice == InitSlice /\ [][NextSlice]_vars

\* Searching and coercion: the iterators varied
InitSearch ==
    /\ mro \in { <<"A", "object">>, <<"tuple", "object">>, <<"list", "object">> }
    /\ as_sequence \in Registries({None, Some({"contains"}), Some(Slots)}, {None}, {None},
                                  {Some(TupleTable)}, {Some(ListTable)})
    /\ as_mapping = [t \in Types |-> None]
    /\ Fresh

NextSearch ==
    \/ Call_from
    \/ Return
    \/ Call_contains
    \/ Call_count
    \/ Call_index
    \/ Call_tuple
    \/ Call_list

SpecSearch == InitSearch /\ [][NextSearch]_vars

\* Every operation, on objects with few or no slots
InitAll ==
    /\ mro \in { <<"A", "object">>, <<"dict", "object">>, <<"list", "object">> }
    /\ as_sequence \in Registries({None, Some(NOT_IMPLEMENTED), Some({"item"})},
                                  {Some({"contains"})}, {None}, {None}, {Some(ListTable)})
    /\ as_mapping \in Registries({None, Some(MapSlots)}, {Some(MapSlots)}, {None}, {None},
                                 {Some(MapSlots)})
    /\ Fresh

NextAll ==
    \/ Call_from
    \/ Call_with_methods
    \/ Return
    \/ Call_methods
    \/ Call_has_protocol
    \/ Call_try_protocol
    \/ Call_length
    \/ Call_get_item
    \/ Call_set_item
    \/ Call_del_item
    \/ Call_concat
    \/ Call_repeat
    \/ Call_inplace_concat
    \/ Call_inplace_repeat
    \/ Call_get_slice
    \/ Call_set_slice
    \/ Call_del_slice
    \/ Call_contains
    \/ Call_count
    \/ Call_index
    \/ Call_tuple
    \/ Call_list

SpecAll == InitAll /\ [][NextAll]_vars

----------------------------------------------------------------------------
(* Properties *)

Range(q) == { q[i] : i \in 1..Len(q) }

\* the table a view of the object resolves to when no table is supplied
ResolvedTable == IF view.supplied THEN view.tbl ELSE resolve(mro).tbl

CantConcat == new_type_error(class(mro), "object can't be concatenated")

CantRepeat == new_type_error(class(mro), "object can't be repeated")

\* C1: concat returns exactly the result of the concat slot when the table has
\* one, and then never invokes the addition operator; without the slot it
\* invokes the operator if and only if the receiver and the other operand both
\* have the item slot, and returns its result unless that is NotImplemented;
\* in every remaining case it fails with "object can't be concatenated".
C1_ConcatOrder ==
    op = "concat" =>
        LET both == "item" \in view.tbl /\ other_has_protocol(args.other)
        IN  IF "concat" \in view.tbl
            THEN res = args.slotRes /\ calls = <<"slot.concat">>
            ELSE /\ ("vm._add" \in Range(calls)) <=> both
                 /\ "slot.concat" \notin Range(calls)
                 /\ (both /\ args.opRes # Ok("NotImplemented")) => res = args.opRes
                 /\ (~both \/ args.opRes = Ok("NotImplemented")) => res = CantConcat

C1_Witness ==
    /\ op = "concat"
    /\ "concat" \notin view.tbl
    /\ args.other = <<"D", "dict", "object">>
    /\ calls = <<"vm._add">>
    /\ res = Ok("op_value")

\* C2: inplace_concat tries the inplace_concat slot, then the concat slot, then
\* the in-place addition operator, then fails: the concat slot is called only
\* when the inplace_concat slot is absent, the operator only when both slots
\* are absent and both operands have the item slot, at most one tier is
\* invoked, and the type error is returned only when no slot exists and the
\* operator was not eligible or returned NotImplemented.
C2_InplaceConcatOrder ==
    op = "inplace_concat" =>
        LET both == "item" \in view.tbl /\ other_has_protocol(args.other)
            noSlot == "inplace_concat" \notin view.tbl /\ "concat" \notin view.tbl
        IN  /\ Len(calls) <= 1
            /\ "inplace_concat" \in view.tbl =>
                   calls = <<"slot.inplace_concat">> /\ res = args.slotRes
            /\ "slot.concat" \in Range(calls) =>
                   "inplace_concat" \notin view.tbl /\ res = args.slotRes
            /\ ("inplace_concat" \notin view.tbl /\ "concat" \in view.tbl) =>
                   calls = <<"slot.concat">>
            /\ "vm._iadd" \in Range(calls) => noSlot /\ both
            /\ res = CantConcat =>
                   noSlot /\ (~both \/ args.opRes = Ok("NotImplemented"))
            /\ (noSlot /\ both /\ args.opRes # Ok("NotImplemented")) =>
                   calls = <<"vm._iadd">> /\ res = args.opRes

C2_Witness ==
    /\ op = "inplace_concat"
    /\ "inplace_concat" \in view.tbl
    /\ "concat" \in view.tbl
    /\ calls = <<"slot.inplace_concat">>

\* C7 as stated: for every object whose ancestry contains the dictionary type,
\* the dictionary type's table-producing function is never the one selected,
\* and when no other ancestor supplies one the empty table is used.
C7_DictNeverSelected ==
    (view.init /\ ~view.supplied /\ dict_type \in Range(mro)) =>
        /\ view.selected # dict_type
        /\ (\A i \in 1..Len(mro) : mro[i] # dict_type => as_sequence[mro[i]] = None) =>
               view.tbl = NOT_IMPLEMENTED

\* C10: the table of one view is resolved at most once and never changes: the
\* ancestry walk and the table-producing function run at most once over any
\* sequence of calls on the view, every later access returns the same table,
\* and a view made by with_methods never runs the walk and keeps its table.
C10_ResolvedOnce ==
    /\ [](view.walks <= 1 /\ view.fncalls <= view.walks)
    /\ [](view.supplied => view.walks = 0 /\ view.init)
    /\ [][(view.init /\ op' \notin {"from", "with_methods"}) =>
              (view'.init /\ view'.tbl = view.tbl /\ view'.walks = view.walks)]_vars
    /\ [][(~view.init /\ view'.init /\ op' # "with_methods") =>
              (view'.walks = 1 /\ view'.tbl = resolve(mro).tbl)]_vars

C10_Witness ==
    /\ op = "inplace_concat"
    /\ calls = <<"vm._iadd">>
    /\ ~view.supplied
    /\ view.walks = 1
    /\ view.fncalls = 1

----------------------------------------------------------------------------
(* Properties of searching *)

Min(S) == CHOOSE x \in S : \A y \in S : x <= y

\* the positions of the items equal to the target
Matches(items, target) == { i \in 1..Len(items) : items[i] = target }

\* the positions at which the iterator or the comparison raises
Raisers(items) == { i \in 1..Len(items) : items[i] \in {"E", "Q"} }

OverflowError == new_overflow_error("index exceeds C integer size")

NotInSequence == new_value_error("sequence.index(x): x not in sequence")

\* the iterator yields its elements and stops; no step and no comparison raises
Plain == args.iterOk /\ Range(args.items) \subseteq {"a", "b"}

\* C4 as stated: count and index on an iterator of exactly ISIZE_MAX + 1
\* elements fail with an overflow error, whatever the elements and the target.
C4_OverflowAtMaxPlusOne ==
    (op \in {"count", "index"} /\ args.iterOk /\ Len(args.items) = ISIZE_MAX + 1
        /\ Range(args.items) \subseteq Elems)
    => res = OverflowError

\* C4 amended: when nothing raises, count fails with the overflow error exactly
\* when more than ISIZE_MAX elements equal the target (on ISIZE_MAX + 1 elements:
\* when all of them do) and otherwise returns the exact number of equal elements;
\* index fails with it exactly when an element ISIZE_MAX + 2 is pulled with none
\* of the first ISIZE_MAX + 1 equal (never on ISIZE_MAX + 1 elements) and
\* otherwise returns the first position or the value error; no result is wrapped.
C4_OverflowOnlyPastMax ==
    (op \in {"count", "index"} /\ Plain) =>
        LET m == Matches(args.items, args.target)
            first == IF m = {} THEN Len(args.items) + 1 ELSE Min(m)
        IN  /\ op = "count" =>
                IF Cardinality(m) > ISIZE_MAX THEN res = OverflowError
                ELSE res = OkNum(Cardinality(m))
            /\ op = "index" =>
                IF first > ISIZE_MAX + 1 /\ Len(args.items) >= ISIZE_MAX + 2
                THEN res = OverflowError
                ELSE IF m = {} THEN res = NotInSequence ELSE res = OkNum(first - 1)
            /\ res.kind = "ok" => res.num <= ISIZE_MAX
            /\ (Len(args.items) = ISIZE_MAX + 1 /\ res = OverflowError) =>
                   (op = "count" /\ Cardinality(m) = ISIZE_MAX + 1)

C4_Witness ==
    /\ op = "count"
    /\ Plain
    /\ Len(args.items) = ISIZE_MAX + 1
    /\ res = OverflowError

\* C5: count and index never read the method table: the call leaves the view's
\* cell as it was and invokes no native slot, also when the table has a contains
\* slot; a count that returns gives the number of iterated elements equal to the
\* target, an index that returns gives the position of the first of them.
C5_IterationOnly ==
    /\ [][op' \in {"count", "index"} => view' = view]_vars
    /\ [](op \in {"count", "index"} => calls = <<"get_iter">>)
    /\ []((op = "count" /\ res.kind = "ok") =>
              res.num = Cardinality(Matches(args.items, args.target)))
    /\ []((op = "index" /\ res.kind = "ok") =>
              /\ Matches(args.items, args.target) # {}
              /\ res.num + 1 = Min(Matches(args.items, args.target)))

C5_Witness ==
    /\ op = "count"
    /\ ~view.init
    /\ "contains" \in resolve(mro).tbl
    /\ res = OkNum(2)

\* C6: on an iterator too short to overflow, when neither the iteration nor a
\* comparison that index makes raises, index returns the zero-based position of
\* the first element equal to the target and pulls nothing after it, and fails
\* with "sequence.index(x): x not in sequence" exactly when the iterator is
\* exhausted with no element equal to the target.
C6_IndexFirstMatch ==
    (/\ op = "index"
     /\ args.iterOk
     /\ Len(args.items) <= ISIZE_MAX + 1
     /\ \A i \in Raisers(args.items) :
            \E j \in Matches(args.items, args.target) : j < i)
    => LET m == Matches(args.items, args.target)
       IN  /\ m # {} => res = OkNum(Min(m) - 1) /\ consumed = Min(m)
           /\ m = {} => res = NotInSequence /\ consumed = Len(args.items)
           /\ res = NotInSequence => m = {}

C6_Witness ==
    /\ op = "index"
    /\ args.items = <<"a", "b", "b">>
    /\ args.target = "b"
    /\ res = OkNum(1)
    /\ consumed = 2

----------------------------------------------------------------------------
(* Properties of slicing, of empty tables and of errors *)

SliceOps == {"get_slice", "set_slice", "del_slice"}

FallbackOps == {"concat", "repeat", "inplace_concat", "inplace_repeat"}

OperatorCalls == {"vm._add", "vm._mul", "vm._iadd", "vm._imul"}

\* the mapping slot a slicing operation needs
MapSlotOf(o) == IF o = "get_slice" THEN "subscript" ELSE "ass_subscript"

\* some ancestor supplies a mapping table with the slot
SomeAncestorHas(slot) ==
    \E i \in 1..Len(mro) :
        as_mapping[mro[i]] # None /\ slot \in Unwrap(as_mapping[mro[i]])

\* the mapping table of the most derived ancestor that supplies one has the slot
FirstMappingHas(slot) ==
    LET I == { i \in 1..Len(mro) : as_mapping[mro[i]] # None }
    IN  I # {} /\ slot \in Unwrap(as_mapping[mro[Min(I)]])

\* the type error each operation documents for a missing slot
DocumentedError(o) ==
    new_type_error(class(mro),
        CASE o = "length" -> "is not a sequence or has no len()"
          [] o = "get_item" -> "is not a sequence or does not support indexing"
          [] o = "set_item" -> "is not a sequence or doesn't support item assignment"
          [] o = "del_item" -> "is not a sequence or doesn't support item deletion"
          [] o = "try_protocol" -> "is not a sequence"
          [] o = "get_slice" -> "object is unsliceable"
          [] o = "set_slice" -> "object doesn't support slice assignment"
          [] o = "del_slice" -> "object doesn't support slice deletion"
          [] o \in {"concat", "inplace_concat"} -> "object can't be concatenated"
          [] o \in {"repeat", "inplace_repeat"} -> "object can't be repeated"
          [] OTHER -> "")

\* C8: the slicing operations succeed only through the mapping protocol: a
\* result that is no error needs an ancestor whose mapping table has the slot
\* and is that slot's result on the slice (start, stop, step none); without the
\* slot they fail with their type error whatever the sequence table holds, and
\* they neither resolve the sequence table of the view nor invoke a slot of it.
C8_SliceViaMapping ==
    /\ [](op \in SliceOps =>
            /\ res.kind = "ok" => SomeAncestorHas(MapSlotOf(op))
            /\ IF FirstMappingHas(MapSlotOf(op))
               THEN /\ res = args.slotRes
                    /\ calls = << IF op = "get_slice" THEN "mp.subscript"
                                  ELSE "mp.ass_subscript" >>
                    /\ args.slice = Some([start |-> Some(args.start), stop |-> args.stop,
                                          step |-> None])
               ELSE res = DocumentedError(op) /\ calls = <<>> /\ args.slice = None)
    /\ [][op' \in SliceOps => view' = view]_vars

C8_Witness ==
    /\ op = "set_slice"
    /\ {"item", "ass_item"} \subseteq resolve(mro).tbl
    /\ ~view.init
    /\ res = DocumentedError("set_slice")

\* C3 as stated: on an object whose resolved table is empty, every operation
\* other than the four with an operator fallback fails with a type error, and
\* those four succeed only on the operator's own success between two operands
\* that both satisfy the protocol.
C3_EmptyTableAllFail ==
    ResolvedTable = NOT_IMPLEMENTED =>
        /\ op \in {"length", "get_item", "set_item", "del_item", "get_slice", "set_slice",
                   "del_slice", "try_protocol"} => res = DocumentedError(op)
        /\ op \in {"contains", "count", "index", "tuple", "list"} =>
               res.kind = "err" /\ res.tag = "TypeError"
        /\ (op \in FallbackOps /\ res.kind = "ok") =>
               /\ Range(calls) \cap OperatorCalls # {}
               /\ res = args.opRes
               /\ "item" \in ResolvedTable

\* C3 amended: on an object whose resolved table is empty, length, get_item,
\* set_item, del_item and try_protocol fail with their type error; concat,
\* repeat and the in-place variants succeed only on the operator's own success
\* between protocol-satisfying operands, which the receiver is not, so they fail
\* with their type error without invoking the operator; the slicing operations
\* fail with their type error unless the mapping table has the slot, whose
\* result they then return; contains, count, index, tuple and list do not depend
\* on the table: they iterate the object and return what the iteration gives
\* (tuple returns a tuple itself and copies the vector of a list instead).
C3_EmptyTable ==
    ResolvedTable = NOT_IMPLEMENTED =>
        /\ op \in {"length", "get_item", "set_item", "del_item", "try_protocol"} =>
               res = DocumentedError(op) /\ calls = <<>>
        /\ (op \in FallbackOps /\ res.kind = "ok") =>
               /\ Range(calls) \cap OperatorCalls # {}
               /\ res = args.opRes
               /\ "item" \in ResolvedTable
        /\ op \in FallbackOps => res = DocumentedError(op) /\ calls = <<>>
        /\ op \in SliceOps =>
               IF FirstMappingHas(MapSlotOf(op)) THEN res = args.slotRes
               ELSE res = DocumentedError(op)
        /\ op \in {"contains", "count", "index"} => calls = <<"get_iter">>
        /\ op = "tuple" =>
               calls = (IF class(mro) \in {tuple_type, list_type} THEN <<>>
                        ELSE <<"get_iter">>)
        /\ op = "list" => calls = <<"list.extend">>
        /\ op \in {"contains", "count", "index", "tuple", "list"} =>
               /\ res.tag # "TypeError"
               /\ ~args.iterOk => res = Err("iter_error")
               /\ Plain =>
                    LET m == Matches(args.items, args.target)
                    IN  /\ op = "contains" =>
                               res = (IF m # {} THEN Ok("true") ELSE Ok("false"))
                        /\ op = "list" => res = OkElems("new", args.items)
                        /\ op = "tuple" =>
                               res = OkElems(IF class(mro) = tuple_type THEN "self"
                                             ELSE "new", args.items)
                        /\ op \in {"count", "index"} /\ res.kind = "ok" =>
                               res.num = (IF op = "count" THEN Cardinality(m)
                                          ELSE Min(m) - 1)

C3_Witness ==
    /\ ResolvedTable = NOT_IMPLEMENTED
    /\ view.init
    /\ op = "contains"
    /\ res = Ok("true")

\* the loop of the operation pulls item i: nothing before it ended the loop
Pulled(o, items, target, i) ==
    LET before == { j \in Matches(items, target) : j < i }
    IN  CASE o = "contains" -> before = {}
          [] o = "count" -> Cardinality(before) <= ISIZE_MAX
          [] o = "index" -> before = {} /\ i <= ISIZE_MAX + 2

\* the operation compares item i with the target
Compared(o, i) == o = "index" => i <= ISIZE_MAX + 1

\* C9 as stated: a fallback tier that raises ends the operation with exactly
\* that error: an error of the generic operator is returned as it is by concat,
\* repeat and the in-place variants, and in contains (iterating), count and
\* index an error raised while obtaining the iterator, by an iterated element
\* or by the equality test is returned at once, nothing more being pulled.
C9_ErrorsPropagate ==
    /\ (op \in FallbackOps /\ Range(calls) \cap OperatorCalls # {}
            /\ args.opRes.kind = "err") => res = args.opRes
    /\ (op \in {"count", "index"} \/ (op = "contains" /\ calls = <<"get_iter">>)) =>
          /\ ~args.iterOk => res = Err("iter_error") /\ consumed = 0
          /\ (args.iterOk /\ Raisers(args.items) # {}) =>
                LET i == Min(Raisers(args.items))
                IN  /\ (args.items[i] = "E" /\ Pulled(op, args.items, args.target, i)) =>
                           res = Err("iter_error") /\ consumed = i
                    /\ (args.items[i] = "Q" /\ Pulled(op, args.items, args.target, i)
                            /\ Compared(op, i)) =>
                           res = Err("eq_error") /\ consumed = i

====
